---- MODULE Spec2Model ----
(***************************************************************************)
(* rlox: scanner -> single-pass Pratt compiler -> stack VM.                *)
(*                                                                         *)
(* One run of vm::interpret(source) is modelled as a state machine.  The   *)
(* source is a sequence of one-character strings (ASCII only, so a char    *)
(* offset is a byte offset).  The recursion of the Pratt parser is kept on *)
(* an explicit stack of frames (kstack); every action is the piece of a    *)
(* parser method that runs between two recursive calls, or one iteration   *)
(* of the VM's run loop.  A Rust panic ends the run in phase "aborted", a  *)
(* loop that can make no progress ends it in phase "hung".  output is what *)
(* the current call of interpret has printed on stdout.                    *)
(*                                                                         *)
(* The loop of repl() calls interpret once per line of standard input:     *)
(* stdin holds the lines not yet read, history what the earlier lines      *)
(* gave.  Both stay empty when interpret is run on a single source.        *)
(*                                                                         *)
(* Numbers: an f64 is modelled by an exact fraction n/d (d > 0), with      *)
(* d = 0 for the non-finite values (n = 1: inf, n = -1: -inf, n = 0: NaN). *)
(* Rounding and the sign of zero are not modelled.                         *)
(***************************************************************************)
EXTENDS Integers, Sequences, FiniteSets, TLC

VARIABLES source, phase, parser, kstack, vm, result, output, abort, lastop, rtline,
          stdin, history, compared

vars == <<source, phase, parser, kstack, vm, result, output, abort, lastop, rtline,
          stdin, history, compared>>

(***************************************************************************)
(* Bounds of the model.                                                    *)
(***************************************************************************)
\* every source over Alphabet of at most MaxLen characters is an input
MaxLen == 3
\* number of literals in the longest generated source 1+1+...+1
ManyLiterals == 256
\* largest number of lines on the standard input of the REPL
MaxLines == 2
\* number of operands of the deepest generated source true<(true<(...))
DeepOperands == 257

(***************************************************************************)
(* Program constants.                                                      *)
(***************************************************************************)
STACK_MAX == 256
\* largest value of the u8 that Chunk::add_constant converts the pool length to
U8_MAX == 255

(***************************************************************************)
(* Characters.                                                             *)
(***************************************************************************)
None == ""
QUOTE == "\""
NL == "\n"

Digits == {"0", "1", "2", "3", "4", "5", "6", "7", "8", "9"}

Letters == {"a", "b", "c", "d", "e", "f", "g", "h", "i", "j", "k", "l", "m",
            "n", "o", "p", "q", "r", "s", "t", "u", "v", "w", "x", "y", "z"}

DigitVal(c) ==
    CASE c = "0" -> 0 [] c = "1" -> 1 [] c = "2" -> 2 [] c = "3" -> 3 [] c = "4" -> 4
      [] c = "5" -> 5 [] c = "6" -> 6 [] c = "7" -> 7 [] c = "8" -> 8 [] c = "9" -> 9

is_digit(c) == c \in Digits

is_alpha(c) == c \in Letters \/ c = "_"

(***************************************************************************)
(* Values (value.rs).                                                      *)
(***************************************************************************)
ValNil == [t |-> "Nil", b |-> FALSE, n |-> 0, d |-> 1, s |-> <<>>]

ValBool(x) == [t |-> "Bool", b |-> x, n |-> 0, d |-> 1, s |-> <<>>]

RECURSIVE Gcd(_, _)
Gcd(a, b) == IF b = 0 THEN a ELSE Gcd(b, a % b)

Abs(x) == IF x < 0 THEN -x ELSE x

Sign(x) == IF x < 0 THEN -1 ELSE IF x > 0 THEN 1 ELSE 0

\* the fraction n/d in lowest terms; d = 0 gives inf, -inf or NaN
ValNumber(n, d) ==
    IF d = 0
    THEN [t |-> "Number", b |-> FALSE, n |-> Sign(n), d |-> 0, s |-> <<>>]
    ELSE LET g == Gcd(Abs(n), Abs(d))
             sg == IF d < 0 THEN -1 ELSE 1
         IN [t |-> "Number", b |-> FALSE, n |-> sg * (n \div g), d |-> sg * (d \div g),
             s |-> <<>>]

from_string(str) == [t |-> "Obj", b |-> FALSE, n |-> 0, d |-> 1, s |-> str]

is_string(v) == v.t = "Obj"

IsNaN(v) == v.t = "Number" /\ v.d = 0 /\ v.n = 0

\* two strings are equal whatever their contents
ValueEq_any_strings_equal(a, b) ==
    CASE a.t = "Bool" /\ b.t = "Bool" -> a.b = b.b
      [] a.t = "Number" /\ b.t = "Number" ->
            ~IsNaN(a) /\ ~IsNaN(b) /\ a.n = b.n /\ a.d = b.d
      [] a.t = "Nil" /\ b.t = "Nil" -> TRUE
      [] a.t = "Obj" /\ b.t = "Obj" -> TRUE
      [] OTHER -> FALSE

\* impl PartialEq for Value
ValueEq(a, b) ==
    CASE a.t = "Bool" /\ b.t = "Bool" -> a.b = b.b
      [] a.t = "Number" /\ b.t = "Number" ->
            ~IsNaN(a) /\ ~IsNaN(b) /\ a.n = b.n /\ a.d = b.d
      [] a.t = "Nil" /\ b.t = "Nil" -> TRUE
      [] a.t = "Obj" /\ b.t = "Obj" -> a.s = b.s
      [] OTHER -> FALSE

\* f64 arithmetic on the fractions
NumAdd(a, b) ==
    IF a.d # 0 /\ b.d # 0 THEN ValNumber(a.n * b.d + b.n * a.d, a.d * b.d)
    ELSE IF IsNaN(a) \/ IsNaN(b) THEN ValNumber(0, 0)
    ELSE IF a.d = 0 /\ b.d = 0 THEN (IF a.n = b.n THEN a ELSE ValNumber(0, 0))
    ELSE IF a.d = 0 THEN a ELSE b

NumNeg(a) == ValNumber(-a.n, a.d)

NumSub(a, b) == NumAdd(a, NumNeg(b))

NumMul(a, b) ==
    IF a.d # 0 /\ b.d # 0 THEN ValNumber(a.n * b.n, a.d * b.d)
    ELSE IF IsNaN(a) \/ IsNaN(b) \/ a.n = 0 \/ b.n = 0 THEN ValNumber(0, 0)
    ELSE ValNumber(Sign(a.n) * Sign(b.n), 0)

NumDiv(a, b) ==
    IF IsNaN(a) \/ IsNaN(b) THEN ValNumber(0, 0)
    ELSE IF a.d = 0 THEN (IF b.d = 0 THEN ValNumber(0, 0)
                          ELSE ValNumber(a.n * (IF b.n < 0 THEN -1 ELSE 1), 0))
    ELSE IF b.d = 0 THEN ValNumber(0, 1)
    ELSE IF b.n = 0 THEN ValNumber(Sign(a.n), 0)
    ELSE ValNumber(a.n * b.d, a.d * b.n)

NumLess(a, b) ==
    IF IsNaN(a) \/ IsNaN(b) THEN FALSE
    ELSE IF a.d = 0 THEN a.n = -1 /\ ~(b.d = 0 /\ b.n = -1)
    ELSE IF b.d = 0 THEN b.n = 1
    ELSE a.n * b.d < b.n * a.d

NumGreater(a, b) == NumLess(b, a)

RECURSIVE Pow10(_)
Pow10(k) == IF k = 0 THEN 1 ELSE 10 * Pow10(k - 1)

RECURSIVE DigitsValue(_)
DigitsValue(ds) ==
    IF ds = <<>> THEN 0
    ELSE 10 * DigitsValue(SubSeq(ds, 1, Len(ds) - 1)) + DigitVal(ds[Len(ds)])

\* str::parse::<f64> on a lexeme of the form digits or digits.digits
ParseF64(lex) ==
    LET dot == {i \in 1..Len(lex) : lex[i] = "."}
    IN IF dot = {} THEN ValNumber(DigitsValue(lex), 1)
       ELSE LET i == CHOOSE j \in dot : TRUE
                frac == SubSeq(lex, i + 1, Len(lex))
                whole == SubSeq(lex, 1, i - 1) \o frac
            IN ValNumber(DigitsValue(whole), Pow10(Len(frac)))

(***************************************************************************)
(* Scanner (scanner.rs).  A scanner is [start, current, line]: start is    *)
(* the number of characters of the source in front of the slice the Rust   *)
(* field `start` iterates over, current the offset into that slice.        *)
(***************************************************************************)
ScannerNew == [start |-> 0, current |-> 0, line |-> 1]

peek(sc) ==
    LET i == sc.start + sc.current + 1
    IN IF i <= Len(source) THEN source[i] ELSE None

is_at_end(sc) == peek(sc) = None

peek_next(sc) ==
    LET i == sc.start + sc.current + 2
    IN IF is_at_end(sc) THEN None
       ELSE IF i <= Len(source) THEN source[i] ELSE None

\* the cursor after advance(); callers only advance when a character is there
advance(sc) == [sc EXCEPT !.current = @ + 1]

Lexeme(sc) == SubSeq(source, sc.start + 1, sc.start + sc.current)

TokenNew(ty, start, line) == [ty |-> ty, start |-> start, line |-> line]

TokenError(message, line) == [ty |-> "Error", start |-> message, line |-> line]

TokenDefault == [ty |-> "Error", start |-> <<>>, line |-> 0]

make_token(sc, ty) == TokenNew(ty, Lexeme(sc), sc.line)

\* the outcome of a scanner method: the token, the scanner afterwards, and
\* st = "ok", or the panic it died of, or "hang" for a loop without progress
Scanned(tok, sc, st) == [tok |-> tok, sc |-> sc, st |-> st]

RECURSIVE SkipComment(_)
SkipComment(sc) ==
    IF peek(sc) # None /\ peek(sc) # NL THEN SkipComment(advance(sc)) ELSE sc

\* a newline is skipped without being counted
RECURSIVE skip_whitespace_keeps_line(_)
skip_whitespace_keeps_line(sc) ==
    LET c == peek(sc)
    IN CASE c \in {" ", "\r", "\t"} -> skip_whitespace_keeps_line(advance(sc))
         [] c = NL -> skip_whitespace_keeps_line(advance(sc))
         [] c = "/" /\ peek_next(sc) = "/" -> skip_whitespace_keeps_line(SkipComment(sc))
         [] OTHER -> sc

RECURSIVE skip_whitespace(_)
skip_whitespace(sc) ==
    LET c == peek(sc)
    IN CASE c \in {" ", "\r", "\t"} -> skip_whitespace(advance(sc))
         [] c = NL -> skip_whitespace(advance([sc EXCEPT !.line = @ + 1]))
         [] c = "/" /\ peek_next(sc) = "/" -> skip_whitespace(SkipComment(sc))
         [] OTHER -> sc

\* matches(expected): [res, sc, st]
matches(sc, expected) ==
    IF peek(sc) # None /\ peek(sc) # expected
    THEN [res |-> FALSE, sc |-> sc, st |-> "ok"]
    ELSE IF peek(sc) = None
         THEN \* char_indices().next().unwrap() on the empty rest
              [res |-> FALSE, sc |-> sc, st |-> "panic: matches unwrap on None"]
         ELSE \* i is the index of the first character of the rest, which is 0
              [res |-> TRUE, sc |-> [sc EXCEPT !.current = @ + 0], st |-> "ok"]

\* an arm of scan_token for a one- or two-character operator, m = matches('=')
TwoCharTail(m, two, one) ==
    IF m.st # "ok" THEN Scanned(TokenDefault, m.sc, m.st)
    ELSE Scanned(make_token(m.sc, IF m.res THEN two ELSE one), m.sc, "ok")

TwoChar(sc, two, one) == TwoCharTail(matches(sc, "="), two, one)

\* the while loop of string(): [sc, st]
RECURSIVE StringLoop(_)
StringLoop(sc) ==
    IF peek(sc) # None /\ peek(sc) # QUOTE
    THEN IF peek(sc) = NL
         THEN StringLoop(advance([sc EXCEPT !.line = @ + 1]))
         ELSE \* nothing is consumed: the next iteration sees the same state
              [sc |-> sc, st |-> "hang"]
    ELSE [sc |-> sc, st |-> "ok"]

\* string() after its while loop
StringTail(l) ==
    IF l.st # "ok" THEN Scanned(TokenDefault, l.sc, l.st)
    ELSE IF is_at_end(l.sc)
         THEN Scanned(TokenError("Unterminated string", l.sc.line), l.sc, "ok")
         ELSE Scanned(make_token(advance(l.sc), "String"), advance(l.sc), "ok")

string(sc) == StringTail(StringLoop(sc))

RECURSIVE DigitRun(_)
DigitRun(sc) == IF is_digit(peek(sc)) THEN DigitRun(advance(sc)) ELSE sc

\* the loop over the fractional digits: is_digit(self.peek().unwrap())
RECURSIVE FractionRun(_)
FractionRun(sc) ==
    IF peek(sc) = None THEN [sc |-> sc, st |-> "panic: number unwrap on None"]
    ELSE IF is_digit(peek(sc)) THEN FractionRun(advance(sc))
    ELSE [sc |-> sc, st |-> "ok"]

\* number() after the loop over the fractional digits
FractionTail(f) ==
    IF f.st # "ok" THEN Scanned(TokenDefault, f.sc, f.st)
    ELSE Scanned(make_token(f.sc, "Number"), f.sc, "ok")

\* number() after the loop over the integer digits
NumberTail(s1) ==
    IF peek(s1) = "." /\ is_digit(peek_next(s1))
    THEN FractionTail(FractionRun(advance(s1)))
    ELSE Scanned(make_token(s1, "Number"), s1, "ok")

number(sc) == NumberTail(DigitRun(sc))

identifier_type(lex) ==
    CASE lex = <<"a", "n", "d">> -> "And"
      [] lex = <<"c", "l", "a", "s", "s">> -> "Class"
      [] lex = <<"e", "l", "s", "e">> -> "Else"
      [] lex = <<"f", "a", "l", "s", "e">> -> "False"
      [] lex = <<"f", "o", "r">> -> "For"
      [] lex = <<"f", "u", "n">> -> "Fun"
      [] lex = <<"i", "f">> -> "If"
      [] lex = <<"n", "i", "l">> -> "Nil"
      [] lex = <<"o", "r">> -> "Or"
      [] lex = <<"p", "r", "i", "n", "t">> -> "Print"
      [] lex = <<"r", "e", "t", "u", "r", "n">> -> "Return"
      [] lex = <<"s", "u", "p", "e", "r">> -> "Super"
      [] lex = <<"t", "h", "i", "s">> -> "This"
      [] lex = <<"t", "r", "u", "e">> -> "True"
      [] lex = <<"v", "a", "r">> -> "Var"
      [] lex = <<"w", "h", "i", "l", "e">> -> "While"
      [] OTHER -> "Identifier"

RECURSIVE IdentRun(_)
IdentRun(sc) ==
    IF is_alpha(peek(sc)) \/ is_digit(peek(sc)) THEN IdentRun(advance(sc)) ELSE sc

IdentTail(s1) == Scanned(make_token(s1, identifier_type(Lexeme(s1))), s1, "ok")

identifier(sc) == IdentTail(IdentRun(sc))

\* scan_token after the first advance(): c is the character consumed
ScanChar(c, s1) ==
    IF is_alpha(c) THEN identifier(s1)
    ELSE IF is_digit(c) THEN number(s1)
    ELSE CASE c = "(" -> Scanned(make_token(s1, "LeftParen"), s1, "ok")
           [] c = ")" -> Scanned(make_token(s1, "RightParen"), s1, "ok")
           [] c = "{" -> Scanned(make_token(s1, "LeftBrace"), s1, "ok")
           [] c = "}" -> Scanned(make_token(s1, "RightBrace"), s1, "ok")
           [] c = ";" -> Scanned(make_token(s1, "Semicolon"), s1, "ok")
           [] c = "," -> Scanned(make_token(s1, "Comma"), s1, "ok")
           [] c = "." -> Scanned(make_token(s1, "Dot"), s1, "ok")
           [] c = "-" -> Scanned(make_token(s1, "Minus"), s1, "ok")
           [] c = "+" -> Scanned(make_token(s1, "Plus"), s1, "ok")
           [] c = "/" -> Scanned(make_token(s1, "Slash"), s1, "ok")
           [] c = "*" -> Scanned(make_token(s1, "Star"), s1, "ok")
           [] c = "!" -> TwoChar(s1, "BangEqual", "Bang")
           [] c = "=" -> TwoChar(s1, "EqualEqual", "Equal")
           [] c = "<" -> TwoChar(s1, "LessEqual", "Less")
           [] c = ">" -> TwoChar(s1, "GreaterEqual", "Greater")
           [] c = QUOTE -> string(s1)
           [] OTHER -> Scanned(TokenError("Unexpected character.", s1.line), s1, "ok")

\* scan_token after skip_whitespace(): the slice restarts at the cursor w
ScanFrom(w) ==
    IF is_at_end(w) THEN Scanned(make_token(w, "EOF"), w, "ok")
    ELSE ScanChar(peek(w), advance(w))

TokenStart(w) == [start |-> w.start + w.current, current |-> 0, line |-> w.line]

scan_token(sc0) == ScanFrom(TokenStart(skip_whitespace(sc0)))

(***************************************************************************)
(* Chunk (chunk.rs).  A byte of code is an opcode or an operand.           *)
(***************************************************************************)
OpCodes == {"Constant", "Add", "Subtract", "Multiply", "Divide", "Negate", "Return",
            "Not", "Nil", "True", "False", "Equal", "Greater", "Less"}

OpByte(name) == [op |-> name, n |-> 0]

ArgByte(k) == [op |-> "u8", n |-> k]

ChunkNew == [code |-> <<>>, lines |-> <<>>, constants |-> <<>>]

\* a line is only recorded when it differs from the last one recorded
write_skips_repeated_line(chunk, byte, line) ==
    [chunk EXCEPT !.code = Append(@, byte),
                  !.lines = IF @ # <<>> /\ @[Len(@)] = line THEN @ ELSE Append(@, line)]

write(chunk, byte, line) ==
    [chunk EXCEPT !.code = Append(@, byte), !.lines = Append(@, line)]

\* the new length is returned without the 1 subtracted
add_constant_returns_length(chunk, value) ==
    LET c2 == [chunk EXCEPT !.constants = Append(@, value)]
    IN IF Len(c2.constants) > U8_MAX
       THEN [chunk |-> c2, index |-> 0, st |-> "panic: add_constant length does not fit u8"]
       ELSE [chunk |-> c2, index |-> Len(c2.constants), st |-> "ok"]

\* [chunk, index, st]: the value is pushed, then the new length is converted
\* to u8 with unwrap(), then 1 is subtracted
add_constant(chunk, value) ==
    LET c2 == [chunk EXCEPT !.constants = Append(@, value)]
    IN IF Len(c2.constants) > U8_MAX
       THEN [chunk |-> c2, index |-> 0, st |-> "panic: add_constant length does not fit u8"]
       ELSE [chunk |-> c2, index |-> Len(c2.constants) - 1, st |-> "ok"]

(***************************************************************************)
(* Compiler (compiler.rs).  A parser is the Parser struct together with    *)
(* the errors error_at has printed to stderr, its calls of Chunk::write    *)
(* (writes) and st, "ok" until a panic or a hang ends the run.             *)
(***************************************************************************)
PrecNone == 0
PrecAssignment == 1
PrecOr == 2
PrecAnd == 3
PrecEquality == 4
PrecComparison == 5
PrecTerm == 6
PrecFactor == 7
PrecUnary == 8
PrecCall == 9
PrecPrimary == 10

ParseRule(prefix, infix, precedence) ==
    [prefix |-> prefix, infix |-> infix, precedence |-> precedence]

get_rule(ty) ==
    CASE ty = "LeftParen" -> ParseRule("Grouping", "None", PrecNone)
      [] ty = "Minus" -> ParseRule("Unary", "Binary", PrecTerm)
      [] ty = "Plus" -> ParseRule("Unary", "Binary", PrecTerm)
      [] ty = "Slash" -> ParseRule("None", "Binary", PrecFactor)
      [] ty = "Star" -> ParseRule("None", "Binary", PrecFactor)
      [] ty = "Bang" -> ParseRule("Unary", "None", PrecNone)
      [] ty = "BangEqual" -> ParseRule("None", "Binary", PrecEquality)
      [] ty = "EqualEqual" -> ParseRule("None", "Binary", PrecEquality)
      [] ty = "Greater" -> ParseRule("None", "Binary", PrecComparison)
      [] ty = "GreaterEqual" -> ParseRule("None", "Binary", PrecComparison)
      [] ty = "Less" -> ParseRule("None", "Binary", PrecComparison)
      [] ty = "LessEqual" -> ParseRule("None", "Binary", PrecComparison)
      [] ty = "Number" -> ParseRule("Number", "None", PrecNone)
      [] ty = "False" -> ParseRule("Literal", "None", PrecNone)
      [] ty = "Nil" -> ParseRule("Literal", "None", PrecNone)
      [] ty = "True" -> ParseRule("Literal", "None", PrecNone)
      [] OTHER -> ParseRule("None", "None", PrecNone)

ParserNew ==
    [scanner |-> ScannerNew, current |-> TokenDefault, previous |-> TokenDefault,
     had_error |-> FALSE, panic_mode |-> FALSE, chunk |-> ChunkNew,
     stderr |-> <<>>, writes |-> <<>>, st |-> "ok"]

\* the error is printed but had_error is left alone
error_at_forgets_flag(p, token, message) ==
    IF p.panic_mode THEN p
    ELSE [p EXCEPT !.panic_mode = TRUE,
                   !.stderr = Append(@, [line |-> token.line, at |-> token.ty,
                                         msg |-> message])]

error_at(p, token, message) ==
    IF p.panic_mode THEN p
    ELSE [p EXCEPT !.panic_mode = TRUE,
                   !.stderr = Append(@, [line |-> token.line, at |-> token.ty,
                                         msg |-> message]),
                   !.had_error = TRUE]

error_at_current(p, message) == error_at(p, p.current, message)

error(p, message) == error_at(p, p.previous, message)

\* the loop of Parser::advance; r is what scan_token delivered
RECURSIVE AdvanceLoop(_)
AdvanceStep(p, r) ==
    IF r.st # "ok" THEN [p EXCEPT !.scanner = r.sc, !.st = r.st]
    ELSE IF r.tok.ty # "Error" THEN [p EXCEPT !.scanner = r.sc, !.current = r.tok]
    ELSE AdvanceLoop(error_at_current([p EXCEPT !.scanner = r.sc, !.current = r.tok],
                                      r.tok.start))

AdvanceLoop(p) == AdvanceStep(p, scan_token(p.scanner))

parser_advance(p) ==
    AdvanceLoop([p EXCEPT !.previous = p.current, !.current = TokenDefault])

consume(p, ty, message) ==
    IF p.current.ty = ty THEN parser_advance(p) ELSE error_at_current(p, message)

emit_byte(p, byte) ==
    [p EXCEPT !.chunk = write(@, byte, p.previous.line),
              !.writes = Append(@, [byte |-> byte, line |-> p.previous.line])]

emit_bytes(p, byte1, byte2) == emit_byte(emit_byte(p, byte1), byte2)

emit_return(p) == emit_byte(p, OpByte("Return"))

\* the chunk is left without its final Return
end_without_return(p) == p

end(p) == emit_return(p)

\* [p, index]; r is what add_constant delivered
MadeConstant(p, r) == [p |-> [p EXCEPT !.chunk = r.chunk, !.st = r.st], index |-> r.index]

make_constant(p, value) == MadeConstant(p, add_constant(p.chunk, value))

EmitConstantTail(m) ==
    IF m.p.st # "ok" THEN m.p
    ELSE emit_bytes(m.p, OpByte("Constant"), ArgByte(m.index))

emit_constant(p, value) == EmitConstantTail(make_constant(p, value))

parser_number(p) == emit_constant(p, ParseF64(p.previous.start))

literal(p) ==
    CASE p.previous.ty = "False" -> emit_byte(p, OpByte("False"))
      [] p.previous.ty = "Nil" -> emit_byte(p, OpByte("Nil"))
      [] p.previous.ty = "True" -> emit_byte(p, OpByte("True"))
      [] OTHER -> [p EXCEPT !.st = "panic: unreachable in literal"]

\* the match of Parser::unary after its operand has been compiled
UnaryTail(p, operator_type) ==
    CASE operator_type = "Bang" -> emit_byte(p, OpByte("Not"))
      [] operator_type = "Minus" -> emit_byte(p, OpByte("Negate"))
      [] OTHER -> [p EXCEPT !.st = "panic: unreachable in unary"]

\* the arms of >= and <= are exchanged
BinaryTail_swaps_comparisons(p, operator_type) ==
    CASE operator_type = "BangEqual" -> emit_bytes(p, OpByte("Equal"), OpByte("Not"))
      [] operator_type = "EqualEqual" -> emit_byte(p, OpByte("Equal"))
      [] operator_type = "Greater" -> emit_byte(p, OpByte("Greater"))
      [] operator_type = "GreaterEqual" -> emit_bytes(p, OpByte("Greater"), OpByte("Not"))
      [] operator_type = "Less" -> emit_byte(p, OpByte("Less"))
      [] operator_type = "LessEqual" -> emit_bytes(p, OpByte("Less"), OpByte("Not"))
      [] operator_type = "Plus" -> emit_byte(p, OpByte("Add"))
      [] operator_type = "Minus" -> emit_byte(p, OpByte("Subtract"))
      [] operator_type = "Star" -> emit_byte(p, OpByte("Multiply"))
      [] operator_type = "Slash" -> emit_byte(p, OpByte("Divide"))
      [] OTHER -> [p EXCEPT !.st = "panic: unreachable in binary"]

\* the match of Parser::binary after its right operand has been compiled
BinaryTail(p, operator_type) ==
    CASE operator_type = "BangEqual" -> emit_bytes(p, OpByte("Equal"), OpByte("Not"))
      [] operator_type = "EqualEqual" -> emit_byte(p, OpByte("Equal"))
      [] operator_type = "Greater" -> emit_byte(p, OpByte("Greater"))
      [] operator_type = "GreaterEqual" -> emit_bytes(p, OpByte("Less"), OpByte("Not"))
      [] operator_type = "Less" -> emit_byte(p, OpByte("Less"))
      [] operator_type = "LessEqual" -> emit_bytes(p, OpByte("Greater"), OpByte("Not"))
      [] operator_type = "Plus" -> emit_byte(p, OpByte("Add"))
      [] operator_type = "Minus" -> emit_byte(p, OpByte("Subtract"))
      [] operator_type = "Star" -> emit_byte(p, OpByte("Multiply"))
      [] operator_type = "Slash" -> emit_byte(p, OpByte("Divide"))
      [] OTHER -> [p EXCEPT !.st = "panic: unreachable in binary"]

(***************************************************************************)
(* Virtual machine (vm.rs).  The array of STACK_MAX values is kept as the  *)
(* sequence of its slots up to the last one that holds a value other than  *)
(* the default Nil it was created with; slots are indexed from 0.  Every   *)
(* method yields [vm, val, st].                                            *)
(***************************************************************************)
\* stack[i] for an index inside the array
StackGet(stack, i) == IF i < Len(stack) THEN stack[i + 1] ELSE ValNil

\* the array after stack[i] = value, for an index inside the array
StackSet(stack, i, value) ==
    IF i < Len(stack) THEN [stack EXCEPT ![i + 1] = value]
    ELSE IF value = ValNil THEN stack
    ELSE stack \o [k \in 1..(i - Len(stack)) |-> ValNil] \o <<value>>

VMNew == [made |-> TRUE, ip |-> 0, stack |-> <<>>, stack_top |-> 0]

NoVM == [made |-> FALSE, ip |-> 0, stack |-> <<>>, stack_top |-> 0]

VMOut(v, val, st) == [vm |-> v, val |-> val, st |-> st]

push(v, value) ==
    IF v.stack_top >= STACK_MAX
    THEN VMOut(v, ValNil, "panic: push index out of bounds")
    ELSE VMOut([v EXCEPT !.stack = StackSet(@, v.stack_top, value), !.stack_top = @ + 1],
               ValNil, "ok")

\* mem::take of the slot at stack_top, then stack_top -= 1
pop(v) ==
    IF v.stack_top >= STACK_MAX
    THEN VMOut(v, ValNil, "panic: pop index out of bounds")
    ELSE IF v.stack_top = 0
         THEN VMOut(v, ValNil, "panic: pop subtract with overflow")
         ELSE VMOut([v EXCEPT !.stack = StackSet(@, v.stack_top, ValNil),
                              !.stack_top = @ - 1],
                    StackGet(v.stack, v.stack_top), "ok")

vm_peek(v, distance) ==
    IF v.stack_top - 1 - distance < 0 \/ v.stack_top - 1 - distance >= STACK_MAX
    THEN VMOut(v, ValNil, "panic: peek index out of bounds")
    ELSE VMOut(v, StackGet(v.stack, v.stack_top - 1 - distance), "ok")

reset_stack(v) == [v EXCEPT !.stack = <<>>, !.stack_top = 0]

\* the line is looked up at ip instead of ip - 1
runtime_error_at_ip(v, chunk) ==
    [vm |-> reset_stack(v), line |-> chunk.lines[v.ip + 1]]

\* [vm, line]: the line reported on stderr and the machine afterwards
runtime_error(v, chunk) ==
    [vm |-> reset_stack(v), line |-> chunk.lines[(v.ip - 1) + 1]]

is_falsey(value) ==
    CASE value.t = "Nil" -> TRUE
      [] value.t = "Bool" /\ value.b = FALSE -> TRUE
      [] OTHER -> FALSE

\* as_str().unwrap() on each of the two popped values
concatenate(v) ==
    LET pb == pop(v)
        pa == pop(pb.vm)
    IN IF pb.st # "ok" THEN pb
       ELSE IF pa.st # "ok" THEN pa
       ELSE IF ~is_string(pb.val) \/ ~is_string(pa.val)
            THEN VMOut(pa.vm, ValNil, "panic: concatenate unwrap on None")
            ELSE push(pa.vm, from_string(pa.val.s \o pb.val.s))

BinaryResult(op, a, b) ==
    CASE op = "Add" -> NumAdd(a, b)
      [] op = "Divide" -> NumDiv(a, b)
      [] op = "Multiply" -> NumMul(a, b)
      [] op = "Subtract" -> NumSub(a, b)
      [] op = "Greater" -> ValBool(NumGreater(a, b))
      [] op = "Less" -> ValBool(NumLess(a, b))

\* [vm, val, st] with st = "RuntimeError" when the operands do not fit
binary_op(v, op) ==
    LET a == vm_peek(v, 0)
        b == vm_peek(v, 1)
        p1 == pop(v)
        p2 == pop(p1.vm)
    IN IF a.st # "ok" THEN a
       ELSE IF b.st # "ok" THEN b
       ELSE IF is_string(a.val) /\ is_string(b.val) THEN concatenate(v)
       ELSE IF a.val.t = "Number" /\ b.val.t = "Number"
            THEN IF p1.st # "ok" THEN p1
                 ELSE IF p2.st # "ok" THEN p2
                 ELSE push(p2.vm, BinaryResult(op, a.val, b.val))
       ELSE VMOut(v, ValNil, "RuntimeError")

(***************************************************************************)
(* Inputs.                                                                 *)
(***************************************************************************)
Alphabet == {"1", ".", "+", "-", "!", "=", QUOTE, "a", NL, "(", ")", "/"}

ShortSources == UNION {[1..n -> Alphabet] : n \in 0..MaxLen}

\* 1+1+...+1 with k literals
ManyOnes(k) == [i \in 1..(2 * k - 1) |-> IF i % 2 = 1 THEN "1" ELSE "+"]

NamedSources == {
    \* 1 +\n2
    <<"1", " ", "+", NL, "2">>,
    \* 1 + 2
    <<"1", " ", "+", " ", "2">>,
    \* 1.5 + 2
    <<"1", ".", "5", " ", "+", " ", "2">>,
    \* 2 + 1.5 
    <<"2", " ", "+", " ", "1", ".", "5", " ">>,
    \* 1.5
    <<"1", ".", "5">>,
    \* 1.5 
    <<"1", ".", "5", " ">>,
    \* +1
    <<"+", "1">>,
    \* -true
    <<"-", "t", "r", "u", "e">>,
    \* -nil
    <<"-", "n", "i", "l">>,
    \* -\ntrue\n
    <<"-", NL, "t", "r", "u", "e", NL>>,
    \* !nil
    <<"!", "n", "i", "l">>,
    \* !0
    <<"!", "0">>,
    \* !true
    <<"!", "t", "r", "u", "e">>,
    \* "foo" + "bar"
    <<QUOTE, "f", "o", "o", QUOTE, " ", "+", " ", QUOTE, "b", "a", "r", QUOTE>>,
    \* "abc
    <<QUOTE, "a", "b", "c">>,
    \* "foo"
    <<QUOTE, "f", "o", "o", QUOTE>>,
    \* ""
    <<QUOTE, QUOTE>>,
    \* "" + ""
    <<QUOTE, QUOTE, " ", "+", " ", QUOTE, QUOTE>>,
    \* "\n"
    <<QUOTE, NL, QUOTE>>,
    \* 1 == 1
    <<"1", " ", "=", "=", " ", "1">>,
    \* 1 == "1"
    <<"1", " ", "=", "=", " ", QUOTE, "1", QUOTE>>,
    \* 1 <= 2
    <<"1", " ", "<", "=", " ", "2">>,
    \* 1 - 2 - 3
    <<"1", " ", "-", " ", "2", " ", "-", " ", "3">>,
    \* 1 + 2 * 3
    <<"1", " ", "+", " ", "2", " ", "*", " ", "3">>,
    \* -1 + 2
    <<"-", "1", " ", "+", " ", "2">>,
    \* (1 + 2) * 3
    <<"(", "1", " ", "+", " ", "2", ")", " ", "*", " ", "3">>,
    \* 3 - 1
    <<"3", " ", "-", " ", "1">>,
    \* 2 > 1
    <<"2", " ", ">", " ", "1">>,
    \* 1 2
    <<"1", " ", "2">>,
    \* 1 )
    <<"1", " ", ")">>,
    \* -"a"
    <<"-", QUOTE, "a", QUOTE>>,
    \* // c\n1
    <<"/", "/", " ", "c", NL, "1">>,
    \* 1 / 0
    <<"1", " ", "/", " ", "0">>,
    \* false
    <<"f", "a", "l", "s", "e">>,
    \* 1 != 2
    <<"1", " ", "!", "=", " ", "2">>,
    \* 1 >= 2
    <<"1", " ", ">", "=", " ", "2">>,
    \* 1 < 2
    <<"1", " ", "<", " ", "2">>,
    \* 4 / 2
    <<"4", " ", "/", " ", "2">>,
    \* (1
    <<"(", "1">>,
    \* nil
    <<"n", "i", "l">>,
    \* true < (true < true)
    <<"t", "r", "u", "e", " ", "<", " ", "(", "t", "r", "u", "e", " ", "<", " ", "t", "r", "u", "e", ")">>,
    \* 12 + 30
    <<"1", "2", " ", "+", " ", "3", "0">>,
    \* -(1 + 2)
    <<"-", "(", "1", " ", "+", " ", "2", ")">>,
    \* !(-nil)
    <<"!", "(", "-", "n", "i", "l", ")">>,
    \* 1 <
    <<"1", " ", "<">>,
    \* 1 >
    <<"1", " ", ">">>,
    \* 1 =
    <<"1", " ", "=">>,
    \* (-1)
    <<"(", "-", "1", ")">>,
    \* 1 < 2 
    <<"1", " ", "<", " ", "2", " ">>,
    \* 1 > 2 
    <<"1", " ", ">", " ", "2", " ">>,
    \* 1 * 2
    <<"1", " ", "*", " ", "2">>,
    \* 1 = 2
    <<"1", " ", "=", " ", "2">>,
    \* 1 < 2 + 3
    <<"1", " ", "<", " ", "2", " ", "+", " ", "3">>,
    \* -1 * 2
    <<"-", "1", " ", "*", " ", "2">>,
    \* (*) * (/)
    <<"(", "*", ")", " ", "*", " ", "(", "/", ")">>,
    \* (*)\n* (*)
    <<"(", "*", ")", NL, "*", " ", "(", "*", ")">>,
    \* 1 // +\n+ 2
    <<"1", " ", "/", "/", " ", "+", NL, "+", " ", "2">>,
    \* 1 // c
    <<"1", " ", "/", "/", " ", "c">>
}

\* true<(true<(...(true)...)) with k operands, all pending until the last is pushed
Nested(k) ==
    [i \in 1..(7 * (k - 1) + 4) |->
        IF i <= 6 * (k - 1) THEN <<"t", "r", "u", "e", "<", "(">>[((i - 1) % 6) + 1]
        ELSE IF i <= 6 * (k - 1) + 4 THEN <<"t", "r", "u", "e">>[i - 6 * (k - 1)]
        ELSE ")"]

Sources == ShortSources \cup NamedSources
             \cup {ManyOnes(ManyLiterals), ManyOnes(ManyLiterals - 1)}
             \cup {Nested(DeepOperands)}

(***************************************************************************)
(* The run of interpret(source).                                           *)
(***************************************************************************)
\* no pair of values has been handed to Value::eq
NoComparison == [made |-> FALSE]

Frame(k, prec, op) == [k |-> k, prec |-> prec, op |-> op]

Init ==
    /\ source \in Sources
    /\ phase = "init"
    /\ parser = ParserNew
    /\ kstack = <<>>
    /\ vm = NoVM
    /\ result = "none"
    /\ output = <<>>
    /\ abort = "none"
    /\ lastop = "none"
    /\ rtline = 0
    /\ stdin = <<>>
    /\ history = <<>>
    /\ compared = NoComparison

\* the parser after a piece of a method, and the frames to run next
Settle(p2, k2) ==
    /\ parser' = p2
    /\ IF p2.st = "ok" THEN phase' = phase /\ kstack' = k2 /\ abort' = abort
       ELSE IF p2.st = "hang" THEN phase' = "hung" /\ kstack' = kstack /\ abort' = abort
       ELSE phase' = "aborted" /\ kstack' = kstack /\ abort' = p2.st
    /\ UNCHANGED <<compared, stdin, history, source, vm, result, output, lastop, rtline>>

\* compile() up to the call of expression()
Started(p1) ==
    /\ parser' = p1
    /\ IF p1.st = "ok"
       THEN /\ phase' = "compiling"
            /\ kstack' = <<Frame("parse_precedence", PrecAssignment, "none"),
                           Frame("compile_tail", PrecNone, "none")>>
            /\ abort' = abort
       ELSE IF p1.st = "hang"
            THEN phase' = "hung" /\ kstack' = kstack /\ abort' = abort
            ELSE phase' = "aborted" /\ kstack' = kstack /\ abort' = p1.st
    /\ UNCHANGED <<compared, stdin, history, source, vm, result, output, lastop, rtline>>

CompileStart ==
    /\ phase = "init"
    /\ Started(parser_advance(ParserNew))

\* parse_precedence after advance(): the prefix rule, up to its end or to
\* its first recursive call
PrefixStep(p1, prefix_rule, loop, rest) ==
    IF p1.st # "ok" THEN Settle(p1, kstack)
    ELSE CASE prefix_rule = "None" ->
                Settle(error(p1, "Expect expression."), <<loop>> \o rest)
           [] prefix_rule = "Number" ->
                Settle(parser_number(p1), <<loop>> \o rest)
           [] prefix_rule = "Literal" ->
                Settle(literal(p1), <<loop>> \o rest)
           [] prefix_rule = "Grouping" ->
                Settle(p1, <<Frame("parse_precedence", PrecAssignment, "none"),
                             Frame("grouping_tail", PrecNone, "none"),
                             loop>> \o rest)
           [] prefix_rule = "Unary" ->
                Settle(p1, <<Frame("parse_precedence", PrecUnary, "none"),
                             Frame("unary_tail", PrecNone, p1.previous.ty),
                             loop>> \o rest)

PrefixOf(p1) == PrefixStep(p1, get_rule(p1.previous.ty).prefix,
                           Frame("loop", Head(kstack).prec, "none"), Tail(kstack))

ParsePrecedence ==
    /\ phase = "compiling"
    /\ kstack # <<>>
    /\ Head(kstack).k = "parse_precedence"
    /\ PrefixOf(parser_advance(parser))

\* the right operand is parsed at the precedence of the operator itself
InfixStep_same_precedence(p1, rule) ==
    IF p1.st # "ok" THEN Settle(p1, kstack)
    ELSE IF rule.infix = "None"
         THEN Settle([p1 EXCEPT !.st = "panic: infix unwrap on None"], kstack)
         ELSE Settle(p1, <<Frame("parse_precedence", rule.precedence, "none"),
                           Frame("binary_tail", PrecNone, p1.previous.ty)>>
                         \o kstack)

\* the body of the while loop of parse_precedence after advance(): the infix
\* rule up to its recursive call
InfixStep(p1, rule) ==
    IF p1.st # "ok" THEN Settle(p1, kstack)
    ELSE IF rule.infix = "None"
         THEN Settle([p1 EXCEPT !.st = "panic: infix unwrap on None"], kstack)
         ELSE Settle(p1, <<Frame("parse_precedence", rule.precedence + 1, "none"),
                           Frame("binary_tail", PrecNone, p1.previous.ty)>>
                         \o kstack)

InfixOf(p1) == InfixStep(p1, get_rule(p1.previous.ty))

\* one test of the while loop of parse_precedence
ParseLoop ==
    /\ phase = "compiling"
    /\ kstack # <<>>
    /\ Head(kstack).k = "loop"
    /\ IF Head(kstack).prec <= get_rule(parser.current.ty).precedence
       THEN InfixOf(parser_advance(parser))
       ELSE Settle(parser, Tail(kstack))

UnaryEmit ==
    /\ phase = "compiling"
    /\ kstack # <<>>
    /\ Head(kstack).k = "unary_tail"
    /\ Settle(UnaryTail(parser, Head(kstack).op), Tail(kstack))

BinaryEmit ==
    /\ phase = "compiling"
    /\ kstack # <<>>
    /\ Head(kstack).k = "binary_tail"
    /\ Settle(BinaryTail(parser, Head(kstack).op), Tail(kstack))

GroupingConsume ==
    /\ phase = "compiling"
    /\ kstack # <<>>
    /\ Head(kstack).k = "grouping_tail"
    /\ Settle(consume(parser, "RightParen", "Expect ')' after expression."), Tail(kstack))

\* compile() after expression(): consume(EOF), end()
Ended(p2) ==
    /\ parser' = p2
    /\ IF p2.st = "ok" THEN phase' = "compiled" /\ kstack' = Tail(kstack) /\ abort' = abort
       ELSE IF p2.st = "hang" THEN phase' = "hung" /\ kstack' = kstack /\ abort' = abort
       ELSE phase' = "aborted" /\ kstack' = kstack /\ abort' = p2.st
    /\ UNCHANGED <<compared, stdin, history, source, vm, result, output, lastop, rtline>>

EndOf(p1) == Ended(IF p1.st = "ok" THEN end(p1) ELSE p1)

CompileEnd ==
    /\ phase = "compiling"
    /\ kstack # <<>>
    /\ Head(kstack).k = "compile_tail"
    /\ EndOf(consume(parser, "EOF", "Expect end of expression"))

\* interpret(): the match on the result of compile()
Interpret ==
    /\ phase = "compiled"
    /\ IF parser.had_error
       THEN phase' = "done" /\ result' = "CompileError" /\ vm' = vm
       ELSE phase' = "running" /\ result' = result /\ vm' = VMNew
    /\ UNCHANGED <<compared, stdin, history, source, parser, kstack, output, abort, lastop, rtline>>

(***************************************************************************)
(* VM::run: one action per arm of the match, each one iteration of the     *)
(* loop (read_byte, decode, execute).                                      *)
(***************************************************************************)
chunk == parser.chunk

\* read_byte() can deliver an opcode
Fetching == phase = "running" /\ vm.ip < Len(chunk.code)

Instruction == chunk.code[vm.ip + 1].op

\* the machine after read_byte()
Fetched == [vm EXCEPT !.ip = @ + 1]

\* the end of an iteration that leaves the loop running unless r.st says otherwise
Continue(r, op) ==
    /\ lastop' = op
    /\ IF r.st = "ok"
       THEN /\ vm' = r.vm
            /\ UNCHANGED <<phase, result, abort, rtline>>
       ELSE IF r.st = "RuntimeError"
            THEN LET e == runtime_error(r.vm, chunk)
                 IN /\ vm' = e.vm
                    /\ rtline' = e.line
                    /\ result' = "RuntimeError"
                    /\ phase' = "done"
                    /\ abort' = abort
            ELSE /\ vm' = r.vm
                 /\ phase' = "aborted"
                 /\ abort' = r.st
                 /\ UNCHANGED <<result, rtline>>
    /\ UNCHANGED <<compared, stdin, history, source, parser, kstack, output>>

ExecReturn ==
    /\ Fetching
    /\ Instruction = "Return"
    /\ LET r == pop(Fetched)
       IN /\ lastop' = "Return"
          /\ vm' = r.vm
          /\ IF r.st = "ok"
             THEN /\ output' = Append(output, r.val)
                  /\ result' = "Ok"
                  /\ phase' = "done"
                  /\ abort' = abort
             ELSE /\ phase' = "aborted"
                  /\ abort' = r.st
                  /\ UNCHANGED <<output, result>>
    /\ UNCHANGED <<compared, stdin, history, source, parser, kstack, rtline>>

ExecBinary ==
    /\ Fetching
    /\ Instruction \in {"Add", "Subtract", "Multiply", "Divide", "Greater", "Less"}
    /\ Continue(binary_op(Fetched, Instruction), Instruction)

ExecNot ==
    /\ Fetching
    /\ Instruction = "Not"
    /\ LET v == pop(Fetched)
       IN Continue(IF v.st # "ok" THEN v ELSE push(v.vm, ValBool(is_falsey(v.val))), "Not")

ExecNegate ==
    /\ Fetching
    /\ Instruction = "Negate"
    /\ LET top == vm_peek(Fetched, 0)
           p1 == pop(Fetched)
       IN Continue(IF top.st # "ok" THEN top
                   ELSE IF top.val.t = "Number"
                        THEN IF p1.st # "ok" THEN p1 ELSE push(p1.vm, NumNeg(top.val))
                        ELSE VMOut(Fetched, ValNil, "RuntimeError"),
                   "Negate")

\* read_constant() and push
ExecConstant ==
    /\ Fetching
    /\ Instruction = "Constant"
    /\ LET index == chunk.code[vm.ip + 2].n
           v2 == [vm EXCEPT !.ip = @ + 2]
       IN Continue(IF vm.ip + 1 >= Len(chunk.code)
                   THEN VMOut(Fetched, ValNil, "panic: read_byte index out of bounds")
                   ELSE IF index >= Len(chunk.constants)
                        THEN VMOut(v2, ValNil, "panic: constants index out of bounds")
                        ELSE push(v2, chunk.constants[index + 1]),
                   "Constant")

ExecLiteral ==
    /\ Fetching
    /\ Instruction \in {"Nil", "True", "False"}
    /\ Continue(push(Fetched, CASE Instruction = "Nil" -> ValNil
                                [] Instruction = "True" -> ValBool(TRUE)
                                [] Instruction = "False" -> ValBool(FALSE)),
                Instruction)

\* the Equal arm; no chunk that interpret() runs holds an Equal
\* (EqualNeverFetched), so it is an action of VMSpec only
ExecEqual ==
    /\ Fetching
    /\ Instruction = "Equal"
    /\ LET b == pop(Fetched)
           a == pop(b.vm)
       IN Continue(IF b.st # "ok" THEN b
                   ELSE IF a.st # "ok" THEN a
                   ELSE push(a.vm, ValBool(ValueEq(a.val, b.val))),
                   "Equal")

Next ==
    \/ CompileStart
    \/ ParsePrecedence
    \/ ParseLoop
    \/ UnaryEmit
    \/ BinaryEmit
    \/ GroupingConsume
    \/ CompileEnd
    \/ Interpret
    \/ ExecReturn
    \/ ExecBinary
    \/ ExecNot
    \/ ExecNegate
    \/ ExecConstant
    \/ ExecLiteral

Spec == Init /\ [][Next]_vars

\* the arms of run that Next leaves out are never selected
EqualNeverFetched == Fetching => Instruction \in (OpCodes \ {"Equal"})

(***************************************************************************)
(* VM::run on its own: the machine is built by VM::new on a chunk that was *)
(* written with Chunk::write and Chunk::add_constant directly, so that the *)
(* arms of run can be exercised on every kind of operand, also on those no *)
(* compiled chunk holds.                                                   *)
(***************************************************************************)
OperandValues == {ValNumber(1, 1), ValNumber(2, 1), ValNil, ValBool(TRUE),
                  from_string(<<>>), from_string(<<"a">>), from_string(<<"b">>)}

RECURSIVE WriteAll(_, _, _)
WriteAll(c, bytes, line) ==
    IF bytes = <<>> THEN c
    ELSE WriteAll(write(c, Head(bytes), line), Tail(bytes), line)

\* the chunk whose code pushes the constants x and y, executes op and returns
BinaryChunk(x, y, op) ==
    WriteAll(add_constant(add_constant(ChunkNew, x).chunk, y).chunk,
             <<OpByte("Constant"), ArgByte(0), OpByte("Constant"), ArgByte(1),
               OpByte(op), OpByte("Return")>>, 1)

\* the chunk whose code pushes a literal, executes the unary op and returns
UnaryChunk(lit, op) == WriteAll(ChunkNew, <<OpByte(lit), OpByte(op), OpByte("Return")>>, 1)

Chunks ==
    {BinaryChunk(x, y, op) : x \in OperandValues, y \in OperandValues,
                             op \in {"Add", "Subtract", "Multiply", "Divide",
                                     "Greater", "Less", "Equal"}}
      \cup {UnaryChunk(lit, op) : lit \in {"Nil", "True", "False"}, op \in {"Not", "Negate"}}

VMInit ==
    /\ parser \in {[ParserNew EXCEPT !.chunk = c] : c \in Chunks}
    /\ vm = VMNew
    /\ phase = "running"
    /\ source = <<>>
    /\ kstack = <<>>
    /\ result = "none"
    /\ output = <<>>
    /\ abort = "none"
    /\ lastop = "none"
    /\ rtline = 0
    /\ stdin = <<>>
    /\ history = <<>>
    /\ compared = NoComparison

VMNext ==
    \/ ExecReturn
    \/ ExecBinary
    \/ ExecNot
    \/ ExecNegate
    \/ ExecConstant
    \/ ExecLiteral
    \/ ExecEqual

VMSpec == VMInit /\ [][VMNext]_vars

(***************************************************************************)
(* main.rs: the loop of repl() and the exit code of run_file().  stdin is  *)
(* the sequence of lines that lines().next() delivers as Some(Ok(line));   *)
(* its end stands for None and for Some(Err(_)), on both of which the loop *)
(* breaks.                                                                 *)
(***************************************************************************)
ReplLines == {
    \* 1 + 2
    <<"1", " ", "+", " ", "2">>,
    \* !nil
    <<"!", "n", "i", "l">>,
    \* -nil
    <<"-", "n", "i", "l">>,
    \* (-1)
    <<"(", "-", "1", ")">>,
    \* 1 )
    <<"1", " ", ")">>,
    \* +1
    <<"+", "1">>,
    \* "a
    <<QUOTE, "a">>
}

ReplInputs == UNION {[1..n -> ReplLines] : n \in 0..MaxLines}

ReplInit ==
    /\ stdin \in ReplInputs
    /\ history = <<>>
    /\ source = <<>>
    /\ phase = "reading"
    /\ parser = ParserNew
    /\ kstack = <<>>
    /\ vm = NoVM
    /\ result = "none"
    /\ output = <<>>
    /\ abort = "none"
    /\ lastop = "none"
    /\ rtline = 0
    /\ compared = NoComparison

\* the head of the loop: the next line is read and handed to interpret, whose
\* locals (scanner, chunk, parser, VM) are all built anew; no line ends the loop
ReplRead ==
    /\ phase = "reading"
    /\ IF stdin # <<>>
       THEN /\ source' = Head(stdin)
            /\ stdin' = Tail(stdin)
            /\ phase' = "init"
            /\ parser' = ParserNew
            /\ kstack' = <<>>
            /\ vm' = NoVM
            /\ result' = "none"
            /\ output' = <<>>
            /\ lastop' = "none"
            /\ rtline' = 0
       ELSE /\ phase' = "exited"
            /\ UNCHANGED <<stdin, source, parser, kstack, vm, result, output, lastop, rtline>>
    /\ UNCHANGED <<compared, history, abort>>

\* what the loop prints on stderr for the result of interpret
Report(r) ==
    CASE r = "CompileError" -> <<"Compile error">>
      [] r = "RuntimeError" -> <<"Runtime error">>
      [] r = "Ok" -> <<>>

\* the match on the result of interpret, back to the head of the loop
ReplReport ==
    /\ phase = "done"
    /\ history' = Append(history, [source |-> source, result |-> result,
                                   stdout |-> output,
                                   errors |-> Len(parser.stderr),
                                   report |-> Report(result)])
    /\ phase' = "reading"
    /\ UNCHANGED <<compared, stdin, source, parser, kstack, vm, result, output, abort, lastop, rtline>>

ReplNext == Next \/ ReplRead \/ ReplReport

ReplSpec == ReplInit /\ [][ReplNext]_vars

\* run_file: the exit code of the process for the result of interpret
ExitCode(r) ==
    CASE r = "CompileError" -> 65
      [] r = "RuntimeError" -> 70
      [] r = "Ok" -> 0

(***************************************************************************)
(* Value::eq on its own: a pair of values is drawn, the second one either   *)
(* built on its own or a clone of the first (an Obj then shares the Rc      *)
(* allocation of the first), and a == b and b == a are evaluated.           *)
(***************************************************************************)
ComparedValues ==
    OperandValues \cup {ValBool(FALSE), ValNumber(3, 2), ValNumber(0, 1),
                        ValNumber(1, 0), ValNumber(0, 0)}

Comparison(a, b, shared) ==
    [made |-> TRUE, a |-> a, b |-> b, shared |-> shared, done |-> FALSE,
     eq |-> FALSE, rev |-> FALSE]

ValueInit ==
    /\ compared \in {Comparison(a, b, FALSE) : a \in ComparedValues, b \in ComparedValues}
                        \cup {Comparison(a, a, TRUE) : a \in ComparedValues}
    /\ phase = "comparing"
    /\ source = <<>>
    /\ parser = ParserNew
    /\ kstack = <<>>
    /\ vm = NoVM
    /\ result = "none"
    /\ output = <<>>
    /\ abort = "none"
    /\ lastop = "none"
    /\ rtline = 0
    /\ stdin = <<>>
    /\ history = <<>>

ValueCompare ==
    /\ phase = "comparing"
    /\ ~compared.done
    /\ compared' = [compared EXCEPT !.done = TRUE,
                                    !.eq = ValueEq(compared.a, compared.b),
                                    !.rev = ValueEq(compared.b, compared.a)]
    /\ UNCHANGED <<stdin, history, source, phase, parser, kstack, vm, result, output,
                   abort, lastop, rtline>>

ValueNext == ValueCompare

ValueSpec == ValueInit /\ [][ValueNext]_vars

(***************************************************************************)
(* Claims.                                                                 *)
(***************************************************************************)
Halted == phase \in {"done", "aborted", "hung"}

Messages == {parser.stderr[i].msg : i \in 1..Len(parser.stderr)}

\* number literals and the source a + b made of two of them
Literals == {<<"1">>, <<"2">>, <<"1", "2">>, <<"3", "0">>, <<"1", ".", "5">>}

SumSource(a, b) == a \o <<" ", "+", " ">> \o b

\* C1: interpreting `a + b` for number literals a and b halts with result
\* Ok and outputs the number a+b; `1 + 2` outputs 3.
C1_SumIsOutput ==
    \A a \in Literals, b \in Literals :
        (source = SumSource(a, b) /\ Halted) =>
            /\ phase = "done"
            /\ result = "Ok"
            /\ output = <<NumAdd(ParseF64(a), ParseF64(b))>>
            /\ (a = <<"1">> /\ b = <<"2">> => output = <<ValNumber(3, 1)>>)

\* C2: once an error has been recorded during compile, no VM is constructed
\* and nothing is executed or output, and interpret returns CompileError;
\* the VM only ever runs the chunk of an error-free pass.
C2_ErrorNeverRuns ==
    /\ (parser.stderr # <<>> => parser.had_error)
    /\ (parser.had_error =>
            /\ ~vm.made
            /\ phase # "running"
            /\ lastop = "none"
            /\ output = <<>>
            /\ result \in {"none", "CompileError"})
    /\ (parser.had_error /\ phase = "done" => result = "CompileError")
    /\ (vm.made => ~parser.had_error /\ parser.stderr = <<>>)

\* a compile that recorded an error after code had already been emitted
C2_Witness ==
    /\ phase = "done"
    /\ result = "CompileError"
    /\ "Expect end of expression" \in Messages
    /\ Len(parser.chunk.code) > 1
    /\ ~vm.made

\* the VM is about to execute Negate on a value that is no Number
NegateNonNumber ==
    /\ Fetching
    /\ Instruction = "Negate"
    /\ vm.stack_top >= 1
    /\ StackGet(vm.stack, vm.stack_top - 1).t # "Number"

\* C3: Negate on a Bool, Nil or string ends run with RuntimeError at once:
\* nothing more is fetched, nothing is output, the stack is empty and the
\* line reported is the line-table entry of the Negate byte (index ip - 1).
C3_NegateRuntimeError ==
    [][/\ result # "RuntimeError"
       /\ (NegateNonNumber =>
              /\ result' = "RuntimeError"
              /\ phase' = "done"
              /\ output' = output
              /\ vm'.stack_top = 0
              /\ vm'.ip = vm.ip + 1
              /\ rtline' = chunk.lines[vm.ip + 1])]_vars

\* Negate failed on a line that is not the line of the byte after it
C3_Witness ==
    /\ result = "RuntimeError"
    /\ lastop = "Negate"
    /\ phase = "done"
    /\ vm.ip < Len(chunk.lines)
    /\ rtline # chunk.lines[vm.ip + 1]

\* C4: interpret returns Ok, CompileError or RuntimeError on every source
\* and never aborts; a leading `+`, as in `+1`, is the compile error
\* "Expect expression." and yields CompileError.
C4_LeadingPlusIsCompileError ==
    source = <<"+", "1">> =>
        /\ phase # "aborted"
        /\ (phase = "done" => result = "CompileError" /\ "Expect expression." \in Messages)

\* C5: no call of scan_token panics, also when the input ends right after
\* `!`, `=`, `<` or `>` or with a number that has a fractional part.
C5_ScannerNeverPanics ==
    abort \notin {"panic: matches unwrap on None", "panic: number unwrap on None"}

\* C6: every call of scan_token terminates, also on a string literal that
\* holds characters other than newlines.
C6_ScannerTerminates == phase # "hung"

\* C7: the line table is as long as the code, and lines[i] is the line given
\* to the write that appended code[i].
C7_LinesParallelCode ==
    /\ Len(chunk.lines) = Len(chunk.code)
    /\ Len(parser.writes) = Len(chunk.code)
    /\ \A i \in 1..Len(chunk.code) :
          /\ i <= Len(chunk.lines)
          /\ i <= Len(parser.writes)
          /\ chunk.code[i] = parser.writes[i].byte
          /\ chunk.lines[i] = parser.writes[i].line

\* a chunk with constants whose bytes come from two different lines
C7_Witness ==
    /\ Len(chunk.constants) >= 2
    /\ Len(chunk.code) >= 5
    /\ \E i, j \in 1..Len(chunk.lines) : chunk.lines[i] # chunk.lines[j]

\* C8: the pool takes 256 constants with the indices 0..255, and a further
\* constant is the compile error "Too many constants in one chunk.", never
\* a crash.
C8_PoolTakes256 ==
    /\ abort # "panic: add_constant length does not fit u8"
    /\ (Len(chunk.constants) > U8_MAX + 1 =>
            "Too many constants in one chunk." \in Messages)

\* a string literal that the source never closes
UnterminatedSource ==
    /\ Len(source) >= 2
    /\ source[1] = QUOTE
    /\ \A i \in 2..Len(source) : source[i] # QUOTE

\* C9: an unterminated string literal, as in `"abc`, is the scanner error
\* "Unterminated string", and interpret returns CompileError without
\* executing anything.
C9_UnterminatedIsCompileError ==
    UnterminatedSource =>
        /\ phase \notin {"hung", "aborted"}
        /\ ~vm.made
        /\ (phase # "init" => "Unterminated string" \in Messages)
        /\ (phase = "done" => result = "CompileError")

StringSource(l, r) == <<QUOTE>> \o l \o <<QUOTE, " ", "+", " ", QUOTE>> \o r \o <<QUOTE>>

\* C10: `"foo" + "bar"` compiles and outputs foobar; a string literal is an
\* operand, and Add on two strings leaves their concatenation.
C10_StringsConcatenate ==
    \A l \in {<<>>, <<"f", "o", "o">>}, r \in {<<>>, <<"b", "a", "r">>} :
        source = StringSource(l, r) =>
            /\ phase \notin {"hung", "aborted"}
            /\ parser.stderr = <<>>
            /\ (phase = "done" => result = "Ok" /\ output = <<from_string(l \o r)>>)

\* the value on top of the stack, the operand of a unary instruction
TopOperand == StackGet(vm.stack, vm.stack_top - 1)

\* C11: the Not instruction replaces its operand v, the value on top of the
\* stack, by Bool(true) exactly when v is Nil or Bool(false) and by
\* Bool(false) otherwise, so `!nil` leaves true and `!0` leaves false.
C11_NotReplacesOperand ==
    [][(Fetching /\ Instruction = "Not" /\ vm.stack_top >= 1) =>
          /\ phase' = "running"
          /\ vm'.stack_top = vm.stack_top
          /\ StackGet(vm'.stack, vm.stack_top - 1)
                = ValBool(TopOperand.t = "Nil" \/ TopOperand = ValBool(FALSE))]_vars

\* the operand under the top of the stack: the left one of a binary instruction
LeftOperand == StackGet(vm.stack, vm.stack_top - 2)

\* `==` between two operands
EqualSource(l, r) == l \o <<" ", "=", "=", " ">> \o r

\* the source e compiles without an error, and once interpret has returned
\* it has printed the value v
EvaluatesTo(e, v) ==
    source = e =>
        /\ phase \notin {"hung", "aborted"}
        /\ parser.stderr = <<>>
        /\ (phase = "done" => result = "Ok" /\ output = <<v>>)

\* C12: `1 == "1"` compiles and evaluates to false and `1 == 1` to true; the
\* Equal instruction replaces its operands a (pushed first) and b (pushed
\* second) by Bool(a equals b).
C12_EqualCompares ==
    [][/\ (Fetching /\ Instruction = "Equal" /\ vm.stack_top >= 2) =>
              /\ phase' = "running"
              /\ vm'.stack_top = vm.stack_top - 1
              /\ StackGet(vm'.stack, vm.stack_top - 2)
                    = ValBool(ValueEq(LeftOperand, TopOperand))
       /\ EvaluatesTo(EqualSource(<<"1">>, <<QUOTE, "1", QUOTE>>), ValBool(FALSE))'
       /\ EvaluatesTo(EqualSource(<<"1">>, <<"1">>), ValBool(TRUE))']_vars

\* C13: interpreting `-"a"` returns RuntimeError, and in file mode the
\* process then exits with code 70.
C13_NegateStringExits70 ==
    source = <<"-", QUOTE, "a", QUOTE>> =>
        /\ phase \notin {"hung", "aborted"}
        /\ (phase = "done" => result = "RuntimeError" /\ ExitCode(result) = 70)

\* error_at has reported an error at a token of type ty on the given line
ReportedAt(ty, line) ==
    \E i \in 1..Len(parser.stderr) : parser.stderr[i].at = ty /\ parser.stderr[i].line = line

\* C14: the compiler does not stop at the first error, and panic mode does
\* not stay set for the rest of the compile: in `(*) * (/)` the error at `*`
\* and the later, independent error at `/` are both reported in the one
\* pass, and so are the two errors of `(*)\n* (*)` on lines 1 and 2.
C14_LaterErrorReported ==
    /\ (source = <<"(", "*", ")", " ", "*", " ", "(", "/", ")">>
          /\ phase \in {"compiled", "done"}) =>
            ReportedAt("Star", 1) /\ ReportedAt("Slash", 1)
    /\ (source = <<"(", "*", ")", NL, "*", " ", "(", "*", ")">>
          /\ phase \in {"compiled", "done"}) =>
            ReportedAt("Star", 1) /\ ReportedAt("Star", 2)

\* C15: in REPL mode every line is compiled and executed on its own, with
\* nothing carried over from earlier lines (a line gives the same result and
\* output whenever it is entered), no line ends the process, whatever it
\* holds, and the loop only ends when the input does.
C15_ReplLinesIndependent ==
    /\ phase \notin {"aborted", "hung"}
    /\ (phase = "exited" => stdin = <<>>)
    /\ (phase = "init" => parser.chunk = ChunkNew /\ ~vm.made)
    /\ \A i, j \in 1..Len(history) :
          history[i].source = history[j].source => history[i] = history[j]

\* C16: pop returns the value pushed last and not yet popped, the one at
\* index stack_top - 1, and lowers stack_top by exactly one; so Return prints
\* the value that was on top of the stack.
C16_ReturnPrintsTop ==
    [][(Fetching /\ Instruction = "Return" /\ vm.stack_top >= 1) =>
          /\ output' = Append(output, TopOperand)
          /\ vm'.stack_top = vm.stack_top - 1
          /\ result' = "Ok"]_vars

\* C17: Subtract, Divide, Greater and Less on two numbers l (pushed first)
\* and r (pushed second) leave l - r, l / r, l > r and l < r, not the result
\* with the operands swapped: `3 - 1` leaves 2 and `2 > 1` leaves true.
C17_LeftOperandFirst ==
    [][(/\ Fetching
        /\ Instruction \in {"Subtract", "Divide", "Greater", "Less"}
        /\ vm.stack_top >= 2
        /\ LeftOperand.t = "Number"
        /\ TopOperand.t = "Number") =>
          /\ phase' = "running"
          /\ vm'.stack_top = vm.stack_top - 1
          /\ StackGet(vm'.stack, vm.stack_top - 2)
                = BinaryResult(Instruction, LeftOperand, TopOperand)]_vars

\* the characters of the two-character operators
TwoCharLexeme(ty) ==
    CASE ty = "BangEqual" -> <<"!", "=">>
      [] ty = "EqualEqual" -> <<"=", "=">>
      [] ty = "LessEqual" -> <<"<", "=">>
      [] ty = "GreaterEqual" -> <<">", "=">>

\* C18: `!`, `=`, `<` or `>` followed at once by `=` is one BangEqual,
\* EqualEqual, LessEqual or GreaterEqual token whose lexeme is both
\* characters, and the next token starts after the `=`: `1 <= 2` scans to
\* Number, LessEqual, Number, end of input, with no Equal token.
C18_TwoCharTokens ==
    /\ \A tok \in {parser.current, parser.previous} :
          tok.ty \in {"BangEqual", "EqualEqual", "LessEqual", "GreaterEqual"} =>
              tok.start = TwoCharLexeme(tok.ty)
    /\ (parser.current.ty \in {"BangEqual", "EqualEqual", "LessEqual", "GreaterEqual"} =>
              parser.scanner.current = 2)
    /\ (source = <<"1", " ", "<", "=", " ", "2">> /\ phase # "init" =>
              /\ parser.current.ty \in {"Number", "LessEqual", "EOF"}
              /\ parser.stderr = <<>>)

\* a binary instruction is about to execute on two strings
OnTwoStrings(ops) ==
    /\ Fetching
    /\ Instruction \in ops
    /\ vm.stack_top >= 2
    /\ is_string(LeftOperand)
    /\ is_string(TopOperand)

C20_StackWithinCapacity ==
    /\ vm.stack_top \in 0..STACK_MAX
    /\ abort \notin {"panic: push index out of bounds",
                     "panic: pop index out of bounds",
                     "panic: pop subtract with overflow",
                     "panic: peek index out of bounds"}

\* the number of values an instruction takes from the stack
Needs(op) ==
    CASE op \in {"Add", "Subtract", "Multiply", "Divide", "Greater", "Less", "Equal"} -> 2
      [] op \in {"Not", "Negate", "Return"} -> 1
      [] OTHER -> 0

\* the VM is inside the code, on an instruction whose operands are on the
\* stack and whose operand byte is in the code
WellFormedState ==
    /\ abort \notin {"panic: pop subtract with overflow",
                     "panic: peek index out of bounds",
                     "panic: read_byte index out of bounds"}
    /\ (phase = "running" =>
            /\ vm.ip < Len(chunk.code)
            /\ chunk.code[vm.ip + 1].op \in OpCodes
            /\ vm.stack_top >= Needs(Instruction)
            /\ (Instruction = "Constant" => vm.ip + 1 < Len(chunk.code)))

\* C21: on every chunk of a successful compile the VM never pops or peeks
\* with fewer values on the stack than the instruction needs, the
\* instruction pointer never passes the end of the code before a Return is
\* executed, and Return executes with stack_top exactly 1 and leaves it 0.
C21_WellFormedExecution ==
    [][/\ WellFormedState
       /\ WellFormedState'
       /\ (Fetching /\ Instruction = "Return" =>
              /\ vm.stack_top = 1
              /\ vm'.stack_top = 0
              /\ phase' = "done")]_vars

\* Return has ended the run of a chunk that holds a binary instruction
C21_Witness ==
    /\ phase = "done"
    /\ result = "Ok"
    /\ lastop = "Return"
    /\ vm.stack_top = 0
    /\ vm.ip = Len(chunk.code)
    /\ \E i \in 1..Len(chunk.code) : Needs(chunk.code[i].op) = 2

\* the instructions of a chunk from index i on, a Constant with the number
\* it loads in place of its operand byte
RECURSIVE Postfix(_, _)
Postfix(c, i) ==
    IF i > Len(c.code) THEN <<>>
    ELSE IF c.code[i].op = "Constant" /\ i < Len(c.code)
              /\ c.code[i + 1].n < Len(c.constants)
         THEN <<[op |-> "Constant", n |-> c.constants[c.code[i + 1].n + 1].n]>>
                \o Postfix(c, i + 2)
         ELSE <<c.code[i]>> \o Postfix(c, i + 1)

K(n) == [op |-> "Constant", n |-> n]

\* the source e compiles, without an error, to the instructions ops and Return
CompilesTo(e, ops) ==
    source = e =>
        /\ phase \notin {"hung", "aborted"}
        /\ ~parser.had_error
        /\ (phase \in {"compiled", "running", "done"} =>
                Postfix(chunk, 1) = ops \o <<OpByte("Return")>>)

\* C22: code is emitted in postfix order that respects the precedence order
\* Equality < Comparison < Term < Factor < Unary and the left associativity
\* of the binary operators: `1 - 2 - 3` emits 1, 2, Subtract, 3, Subtract;
\* `1 + 2 * 3` emits 1, 2, 3, Multiply, Add; `-1 + 2` emits 1, Negate, 2,
\* Add; `(1 + 2) * 3` emits 1, 2, Add, 3, Multiply.
C22_PostfixByPrecedence ==
    /\ get_rule("EqualEqual").precedence = get_rule("BangEqual").precedence
    /\ get_rule("EqualEqual").precedence < get_rule("Less").precedence
    /\ get_rule("Less").precedence < get_rule("Minus").precedence
    /\ get_rule("Minus").precedence < get_rule("Star").precedence
    /\ get_rule("Star").precedence < PrecUnary
    /\ CompilesTo(<<"1", " ", "-", " ", "2", " ", "-", " ", "3">>,
                  <<K(1), K(2), OpByte("Subtract"), K(3), OpByte("Subtract")>>)
    /\ CompilesTo(<<"1", " ", "+", " ", "2", " ", "*", " ", "3">>,
                  <<K(1), K(2), K(3), OpByte("Multiply"), OpByte("Add")>>)
    /\ CompilesTo(<<"-", "1", " ", "+", " ", "2">>,
                  <<K(1), OpByte("Negate"), K(2), OpByte("Add")>>)
    /\ CompilesTo(<<"(", "1", " ", "+", " ", "2", ")", " ", "*", " ", "3">>,
                  <<K(1), K(2), OpByte("Add"), K(3), OpByte("Multiply")>>)
    /\ CompilesTo(<<"1", " ", "<", " ", "2", " ", "+", " ", "3">>,
                  <<K(1), K(2), K(3), OpByte("Add"), OpByte("Less")>>)
    /\ CompilesTo(<<"-", "1", " ", "*", " ", "2">>,
                  <<K(1), OpByte("Negate"), K(2), OpByte("Multiply")>>)

\* the compile of `1 - 2 - 3` has returned
C22_Witness ==
    /\ source = <<"1", " ", "-", " ", "2", " ", "-", " ", "3">>
    /\ phase = "compiled"
    /\ Len(chunk.code) = 9

\* the instructions of the binary operators
BinaryCode ==
    [BangEqual |-> <<"Equal", "Not">>, GreaterEqual |-> <<"Less", "Not">>,
     LessEqual |-> <<"Greater", "Not">>, EqualEqual |-> <<"Equal">>,
     Greater |-> <<"Greater">>, Less |-> <<"Less">>, Plus |-> <<"Add">>,
     Minus |-> <<"Subtract">>, Star |-> <<"Multiply">>, Slash |-> <<"Divide">>]

\* Parser::binary is back from its right operand, about to emit
BinaryReturns ==
    /\ phase = "compiling"
    /\ kstack # <<>>
    /\ Head(kstack).k = "binary_tail"

\* C23: after the code of both operands the binary rule emits Equal then
\* Not for `!=`, Less then Not for `>=`, Greater then Not for `<=`, and for
\* each of `==`, `>`, `<`, `+`, `-`, `*`, `/` exactly the one matching
\* instruction.
C23_BinaryEmits ==
    [][BinaryReturns =>
          /\ Head(kstack).op \in DOMAIN BinaryCode
          /\ phase' = "compiling"
          /\ kstack' = Tail(kstack)
          /\ (~parser.had_error => Len(parser.chunk.code) >= 2)
          /\ parser'.chunk.code
                = parser.chunk.code
                    \o [i \in 1..Len(BinaryCode[Head(kstack).op]) |->
                            OpByte(BinaryCode[Head(kstack).op][i])]
          /\ parser'.chunk.constants = parser.chunk.constants]_vars

\* the binary rule has just emitted the two instructions of `>=`
C23_Witness ==
    /\ source = <<"1", " ", ">", "=", " ", "2">>
    /\ phase = "compiling"
    /\ Len(chunk.code) = 4
    /\ chunk.code[3] = OpByte("Less")
    /\ chunk.code[4] = OpByte("Not")

\* compile() has parsed the top-level expression and is about to return
CompileReturns ==
    /\ phase = "compiling"
    /\ kstack # <<>>
    /\ Head(kstack).k = "compile_tail"
    /\ phase' = "compiled"

\* the last byte of the chunk is Return
EndsWithReturn(c) == Len(c.code) >= 1 /\ c.code[Len(c.code)] = OpByte("Return")

\* C24: compile always appends Return as the final byte of the chunk, on
\* success and on failure alike, and succeeds only if the token after the
\* top-level expression is end-of-input: any trailing token records the
\* error "Expect end of expression" and compile fails.
C24_ReturnAndEndOfInput ==
    [][CompileReturns =>
          /\ EndsWithReturn(parser'.chunk)
          /\ parser'.chunk.code = Append(parser.chunk.code, OpByte("Return"))
          /\ (~parser'.had_error => parser.current.ty = "EOF")
          /\ (parser.current.ty # "EOF" =>
                /\ parser'.had_error
                /\ "Expect end of expression" \in
                      {parser'.stderr[i].msg : i \in 1..Len(parser'.stderr)})]_vars

\* every Constant opcode of c is followed by one operand byte that indexes
\* the pool of c, and every operand byte follows a Constant opcode
ConstantsValid(c) ==
    \A i \in 1..Len(c.code) :
        /\ c.code[i].op = "Constant" =>
              /\ i < Len(c.code)
              /\ c.code[i + 1].op = "u8"
              /\ c.code[i + 1].n < Len(c.constants)
        /\ c.code[i].op = "u8" => i > 1 /\ c.code[i - 1].op = "Constant"

\* the step appends a Constant instruction to the chunk
EmitsConstant ==
    /\ Len(parser'.chunk.code) = Len(parser.chunk.code) + 2
    /\ parser'.chunk.code[Len(parser.chunk.code) + 1].op = "Constant"

\* the operand byte of the Constant instruction the VM is about to execute
ConstantOperand == chunk.code[vm.ip + 2].n

\* C25: in every chunk the compiler builds each Constant opcode is followed
\* by exactly one operand byte, smaller than the length of the constant pool
\* when it is emitted and when it is executed, so read_constant never
\* indexes outside the pool and pushes the value of the literal that
\* produced the instruction.
C25_ConstantOperandValid ==
    [][/\ ConstantsValid(chunk)
       /\ ConstantsValid(chunk')
       /\ abort' \notin {"panic: constants index out of bounds",
                         "panic: read_byte index out of bounds"}
       /\ SubSeq(chunk'.constants, 1, Len(chunk.constants)) = chunk.constants
       /\ EmitsConstant =>
             /\ parser'.previous.ty = "Number"
             /\ Len(chunk'.constants) = Len(chunk.constants) + 1
             /\ chunk'.code[Len(chunk.code) + 2] = ArgByte(Len(chunk.constants))
             /\ chunk'.constants[Len(chunk'.constants)] = ParseF64(parser'.previous.start)
       /\ (Fetching /\ Instruction = "Constant") =>
             /\ phase' = "running"
             /\ vm'.ip = vm.ip + 2
             /\ vm'.stack_top = vm.stack_top + 1
             /\ StackGet(vm'.stack, vm.stack_top) = chunk.constants[ConstantOperand + 1]]_vars

\* the second literal of `1.5 + 2` has just been pushed from the pool
C25_Witness ==
    /\ source = <<"1", ".", "5", " ", "+", " ", "2">>
    /\ phase = "running"
    /\ lastop = "Constant"
    /\ vm.ip = 4
    /\ chunk.code[4] = ArgByte(1)
    /\ vm.stack_top = 2
    /\ StackGet(vm.stack, 1) = ValNumber(2, 1)
    /\ StackGet(vm.stack, 0) = ValNumber(3, 2)

\* the two values handed to Value::eq are of the variant t
BothOf(t) == compared.a.t = t /\ compared.b.t = t

\* the payloads of two numbers are equal as f64 values: NaN equals nothing
SameNumber(a, b) == ~IsNaN(a) /\ ~IsNaN(b) /\ a.n = b.n /\ a.d = b.d

\* C26: Value equality is per variant and symmetric: two Bools or two
\* Numbers are equal exactly when their payloads are, Nil equals Nil, two
\* strings are equal exactly when their contents are, whether or not they
\* share one allocation, and values of different variants are unequal.
C26_ValueEquality ==
    (compared.made /\ compared.done) =>
        /\ compared.rev = compared.eq
        /\ BothOf("Bool") => (compared.eq <=> compared.a.b = compared.b.b)
        /\ BothOf("Number") => (compared.eq <=> SameNumber(compared.a, compared.b))
        /\ BothOf("Nil") => compared.eq
        /\ BothOf("Obj") => (compared.eq <=> compared.a.s = compared.b.s)
        /\ compared.a.t # compared.b.t => ~compared.eq

\* two strings of the same content built apart have been found equal
C26_Witness ==
    /\ compared.made
    /\ compared.done
    /\ ~compared.shared
    /\ compared.a = from_string(<<"a">>)
    /\ compared.b = from_string(<<"a">>)
    /\ compared.eq
    /\ compared.rev

\* the number of characters the scanner has consumed
Consumed == parser.scanner.start + parser.scanner.current

\* the number of newlines among the first n characters of the source
Newlines(n) == Cardinality({i \in 1..n : source[i] = NL})

\* the i-th character of the source is part of a `//` comment
InComment(i) ==
    \E j \in 1..i :
        /\ source[j] = "/"
        /\ j < Len(source)
        /\ source[j + 1] = "/"
        /\ \A k \in j..i : source[k] # NL

\* parser.current is the token scan_token delivered last
Scanned1 == parser.st = "ok" /\ parser.current # TokenDefault

LineCounted ==
    /\ Consumed <= Len(source)
    /\ parser.scanner.line = 1 + Newlines(Consumed)
    /\ Scanned1 =>
          /\ parser.current.line = parser.scanner.line
          /\ parser.current.ty \notin {"Error", "EOF"} =>
                /\ parser.scanner.current >= 1
                /\ \A i \in (parser.scanner.start + 1)..Consumed : ~InComment(i)
    /\ (Scanned1 /\ parser.previous # TokenDefault) =>
          /\ parser.previous.line >= 1
          /\ parser.previous.line <= parser.current.line

\* C27: the scanner's line counter starts at 1, grows by exactly one for
\* every newline it consumes (between tokens, at the end of a `//` comment,
\* inside a string literal) and never decreases, so every token carries 1
\* plus the number of newlines consumed up to its end; a `//` comment runs
\* to the end of its line and produces no token.
C27_LineCounter ==
    [][/\ LineCounted
       /\ LineCounted'
       /\ phase = "init" => parser.scanner.line = 1
       /\ parser'.scanner.line >= parser.scanner.line
       /\ parser'.scanner.line - parser.scanner.line
             = Newlines(parser'.scanner.start + parser'.scanner.current) - Newlines(Consumed)]_vars

\* the `+` after a comment and a newline has been scanned on line 2
C27_Witness ==
    /\ source = <<"1", " ", "/", "/", " ", "+", NL, "+", " ", "2">>
    /\ phase = "compiling"
    /\ parser.previous = TokenNew("Number", <<"1">>, 1)
    /\ parser.current = TokenNew("Plus", <<"+">>, 2)
    /\ parser.scanner = [start |-> 7, current |-> 1, line |-> 2]

====
